---- MODULE Spec2Model ----
(***************************************************************************)
(* Request pipeline of the document-analysis chat application: the chat    *)
(* and analyze-document edge functions, the in-memory rate limiter, and    *)
(* the storage tables (messages, documents) they read and write.           *)
(*                                                                         *)
(* The handlers are the newest revisions found in the sources: both live   *)
(* in src/unnamed/part_004 (analyze-document with validateContentType at   *)
(* lines 1-260, chat with checkRateLimit at lines 262-486).                *)
(*                                                                         *)
(* Every await of a handler is one step of the model, so requests in       *)
(* flight interleave at exactly the points where the event loop can switch *)
(* between them; the code between two awaits is one atomic action.         *)
(***************************************************************************)
EXTENDS Integers, Sequences, FiniteSets, TLC

VARIABLES
    now,          \* Date.now() of the process, in milliseconds
    rateLimits,   \* the module-level Map userId -> {count, resetAt}
    messages,     \* table messages, in order of created_at
    documents,    \* table documents, by id
    chatReq,      \* chat requests in flight, by slot
    anReq,        \* analyze-document requests in flight, by slot
    window,       \* observer: per user, the first request of the current
                  \* one-hour window and the number of requests since
    recoveryCodes, \* table mfa_recovery_codes, in order of insertion
    rcReq         \* generate-recovery-codes requests in flight, by slot

vars == <<now, rateLimits, messages, documents, chatReq, anReq, window,
          recoveryCodes, rcReq>>

-----------------------------------------------------------------------------
(* Program constants *)

RATE_LIMIT == 100

RATE_WINDOW_MS == 3600000

MAX_MESSAGE_LEN == 5000

HISTORY_LIMIT == 10

EXCERPT_LEN == 3000

(* Bounds of the model *)

MaxWindows == 2       \* the clock runs over this many rate-limit windows

MaxJitter == 1        \* and this many milliseconds past a window seam

MaxOverrun == 2       \* the observer counts this far beyond RATE_LIMIT

MaxMsgs == 11         \* rows of the messages table

InitHeadroom == 2     \* SpecChat starts this many requests short of the limit

\* Requests are handled one at a time per handler.
Slots == {1}

Min(a, b) == IF a < b THEN a ELSE b

-----------------------------------------------------------------------------
(* Identities, ids and request inputs *)

Users == {"u1", "u2"}

NoHeader == "none"        \* request without Authorization header

BadToken == "bad"         \* header present, token rejected by auth.getUser()

Undefined == "undefined"  \* an absent optional property

NULL == "null"            \* SQL NULL / JSON null

Uuids == {"c1", "d1", "d9"}

IsUuid(x) == x \in Uuids

\* Request bodies of chat: the well-formed ones (message of 1 or 5000
\* characters, conversation c1, no document, the stored document d1 or an
\* unknown document d9), the ones with a single defect, and a body that is
\* no JSON at all (req.json() throws).
ChatBody(len, conv, doc) ==
    [json |-> TRUE, message |-> [id |-> 0, len |-> len],
     conversationId |-> conv, documentId |-> doc]

MalformedChatBody == [ChatBody(0, Undefined, Undefined) EXCEPT !.json = FALSE]

ChatBodies ==
    {ChatBody(len, "c1", doc) : len \in {1, MAX_MESSAGE_LEN}, doc \in {Undefined, "d1", "d9"}}
    \cup {ChatBody(0, "c1", Undefined),
          ChatBody(MAX_MESSAGE_LEN + 1, "c1", Undefined),
          ChatBody(1, "not-a-uuid", Undefined),
          ChatBody(1, "c1", "not-a-uuid"),
          MalformedChatBody}

\* How an awaited completion call ends: a response arrives, fetch rejects
\* (network error), or the body of a success response is not readable JSON
\* of the expected shape
CallOutcomes == {"response", "rejected", "unreadable"}

UpstreamStatuses == {200, 429, 402, 500, 503}

-----------------------------------------------------------------------------
(* Rate limiter *)

NoEntries == [u \in {} |-> [count |-> 0, resetAt |-> 0]]

\* a set that drops every other key
MapSet_Only(rl, userId, entry) == [u \in {userId} |-> entry]

\* rateLimits.set(userId, entry)
MapSet(rl, userId, entry) ==
    [u \in (DOMAIN rl) \cup {userId} |-> IF u = userId THEN entry ELSE rl[u]]

\* checkRateLimit writing the count back without the increment
checkRateLimit_NoIncrement(rl, userId, t) ==
    IF userId \notin DOMAIN rl \/ t > rl[userId].resetAt
    THEN [ok |-> TRUE,
          rl |-> MapSet(rl, userId, [count |-> 1, resetAt |-> t + RATE_WINDOW_MS])]
    ELSE IF rl[userId].count >= RATE_LIMIT
    THEN [ok |-> FALSE, rl |-> rl]
    ELSE [ok |-> TRUE, rl |-> rl]

\* checkRateLimit opening a new window already at the reset time
\* (now >= resetAt)
checkRateLimit_ResetAtBoundary(rl, userId, t) ==
    IF userId \notin DOMAIN rl \/ t >= rl[userId].resetAt
    THEN [ok |-> TRUE,
          rl |-> MapSet(rl, userId, [count |-> 1, resetAt |-> t + RATE_WINDOW_MS])]
    ELSE IF rl[userId].count >= RATE_LIMIT
    THEN [ok |-> FALSE, rl |-> rl]
    ELSE [ok |-> TRUE, rl |-> [rl EXCEPT ![userId].count = @ + 1]]

\* checkRateLimit with the quota test off by one (count > RATE_LIMIT)
checkRateLimit_OffByOne(rl, userId, t) ==
    IF userId \notin DOMAIN rl \/ t > rl[userId].resetAt
    THEN [ok |-> TRUE,
          rl |-> MapSet(rl, userId, [count |-> 1, resetAt |-> t + RATE_WINDOW_MS])]
    ELSE IF rl[userId].count > RATE_LIMIT
    THEN [ok |-> FALSE, rl |-> rl]
    ELSE [ok |-> TRUE, rl |-> [rl EXCEPT ![userId].count = @ + 1]]

\* checkRateLimit(userId) at time t on map rl: the verdict and the map after
checkRateLimit(rl, userId, t) ==
    IF userId \notin DOMAIN rl \/ t > rl[userId].resetAt
    THEN [ok |-> TRUE,
          rl |-> MapSet(rl, userId, [count |-> 1, resetAt |-> t + RATE_WINDOW_MS])]
    ELSE IF rl[userId].count >= RATE_LIMIT
    THEN [ok |-> FALSE, rl |-> rl]
    ELSE [ok |-> TRUE, rl |-> [rl EXCEPT ![userId].count = @ + 1]]

\* The clock: a millisecond passes, or a whole window does.
TickTo(end) ==
    /\ \E d \in {1, RATE_WINDOW_MS} :
          /\ now + d <= end
          /\ (now + d) % RATE_WINDOW_MS <= MaxJitter
          /\ now' = now + d
    /\ UNCHANGED <<rateLimits, messages, documents, chatReq, anReq, window, recoveryCodes, rcReq>>

Tick == TickTo(MaxWindows * RATE_WINDOW_MS + MaxJitter)

-----------------------------------------------------------------------------
(* Storage: the tables behind the Persistence Gateway *)

AnalysisFields == {"summary", "key_points", "sentiment", "keywords", "entities"}

TextContent(i) == [kind |-> "text", id |-> i]

\* A row of table messages; created_at is the insertion instant.
MessageRow(conv, role, i) ==
    [conversation_id |-> conv, role |-> role, content |-> TextContent(i),
     created_at |-> i]

\* The UI persists the next turn of conversation c1 (handleSend): the user's
\* message, then the assistant's reply, in alternation.
InsertMessage ==
    /\ Len(messages) < MaxMsgs
    /\ LET role == IF Len(messages) % 2 = 0 THEN "user" ELSE "assistant"
       IN  messages' = Append(messages, MessageRow("c1", role, Len(messages) + 1))
    /\ UNCHANGED <<now, rateLimits, documents, chatReq, anReq, window, recoveryCodes, rcReq>>

RECURSIVE OrderByCreatedAtAsc(_)
\* .order("created_at", { ascending: true }) on a set of rows
OrderByCreatedAtAsc(rows) ==
    IF rows = {} THEN <<>>
    ELSE LET first == CHOOSE r \in rows : \A q \in rows : r.created_at <= q.created_at
         IN  <<first>> \o OrderByCreatedAtAsc(rows \ {first})

\* the query without .limit(n)
Limit_None(seq, n) == seq

\* .limit(n)
Limit(seq, n) == SubSeq(seq, 1, Min(Len(seq), n))

\* The conversation history query of the chat handler:
\* from("messages").select("role, content").eq("conversation_id", id)
\*   .order("created_at", { ascending: true }).limit(10)
HistoryQuery(table, conversationId) ==
    LET rows    == {table[i] : i \in DOMAIN table}
        matched == {r \in rows : r.conversation_id = conversationId}
        ordered == Limit(OrderByCreatedAtAsc(matched), HISTORY_LIMIT)
    IN  [i \in DOMAIN ordered |->
            [role |-> ordered[i].role, content |-> ordered[i].content]]

\* Observer: the number of rows of a conversation
RowCount(table, conversationId) ==
    Cardinality({i \in DOMAIN table : table[i].conversation_id = conversationId})

\* Observer: the HISTORY_LIMIT most recently created rows of a conversation,
\* oldest first, as {role, content} pairs.
MostRecent(table, conversationId) ==
    LET idx  == {i \in DOMAIN table : table[i].conversation_id = conversationId}
        late == {i \in idx : Cardinality({j \in idx : table[j].created_at > table[i].created_at})
                                < HISTORY_LIMIT}
        nth(k) == CHOOSE i \in late :
                     Cardinality({j \in late : table[j].created_at < table[i].created_at}) = k - 1
    IN  [k \in 1..Cardinality(late) |->
            [role |-> table[nth(k)].role, content |-> table[nth(k)].content]]

\* Visible without the owner check (a query not scoped by the caller)
Visible_AnyOwner(docs, id, user) == id \in DOMAIN docs

\* Row-level security: a document is visible to its owner only.
Visible(docs, id, user) == id \in DOMAIN docs /\ docs[id].user_id = user

-----------------------------------------------------------------------------
(* Chat handler *)

GenericPrompt == [kind |-> "generic"]

\* The system instruction built from a document row
DocumentPrompt(doc) ==
    [kind       |-> "document",
     summary    |-> IF doc.summary = NULL THEN "Not available" ELSE doc.summary,
     key_points |-> IF doc.key_points = NULL THEN "Not available" ELSE doc.key_points,
     excerpt    |-> SubSeq(doc.content, 1, Min(Len(doc.content), EXCERPT_LEN))]

\* aiMessages: system instruction, loaded history, the new user message
BuildPrompt(systemPrompt, history, message) ==
    <<[role |-> "system", content |-> systemPrompt]>>
    \o [i \in DOMAIN history |-> [role |-> history[i].role, content |-> history[i].content]]
    \o <<[role |-> "user", content |-> TextContent(message.id)]>>

\* chatRequestSchema.safeParse(body).success
ChatBodyValid(r) ==
    /\ r.message.len >= 1
    /\ r.message.len <= MAX_MESSAGE_LEN
    /\ IsUuid(r.conversationId)
    /\ r.documentId = Undefined \/ IsUuid(r.documentId)

IdleChat ==
    [pc |-> "idle", auth |-> NoHeader, json |-> TRUE,
     message |-> [id |-> 0, len |-> 0],
     conversationId |-> Undefined, documentId |-> Undefined,
     limiter |-> "none", rlChanged |-> FALSE, seq |-> 0, reopened |-> FALSE,
     atReset |-> FALSE, count |-> 0, resetAt |-> 0,
     history |-> <<>>, loaded |-> 0, recent |-> <<>>, prompt |-> <<>>,
     docError |-> FALSE, keyMissing |-> FALSE, aiCalls |-> 0, reads |-> 0,
     upstream |-> 0, status |-> 0, error |-> "", response |-> ""]

ChatRespond(r, status, error) ==
    [r EXCEPT !.pc = "done", !.status = status, !.error = error]

ChatCallers == {"u1"}

\* A request arrives, of one of the callers when it bears a valid token;
\* the handler checks the Authorization header and, when it is present,
\* awaits auth.getUser().
ChatStart(s, callers) ==
    /\ chatReq[s].pc \in {"idle", "done"}
    /\ \E auth \in {NoHeader, BadToken} \cup callers, body \in ChatBodies :
          LET r == [IdleChat EXCEPT !.auth = auth,
                                    !.json = body.json,
                                    !.message = body.message,
                                    !.conversationId = body.conversationId,
                                    !.documentId = body.documentId]
          IN  chatReq' = [chatReq EXCEPT ![s] =
                  IF auth = NoHeader
                  THEN ChatRespond(r, 401, "Authentication required")
                  ELSE [r EXCEPT !.pc = "getUser"]]
    /\ UNCHANGED <<now, rateLimits, messages, documents, anReq, window, recoveryCodes, rcReq>>

\* Observer: no request of the user seen yet
NoWindow ==
    [first |-> 0, seq |-> 0, logging |-> FALSE, allowed |-> 0, prevAllowed |-> 0,
     log |-> <<>>]

\* Observer: the log of allowed requests (time -> number) after one more at
\* time t; times more than one hour before t are dropped
LogAllowed(log, t) ==
    LET kept == {x \in DOMAIN log : x >= t - RATE_WINDOW_MS}
    IN  [x \in kept \cup {t} |->
            (IF x \in kept THEN log[x] ELSE 0) + (IF x = t THEN 1 ELSE 0)]

\* Observer: the record of a user after a request at time t that opens a
\* window or not and is allowed or not; the numbers of allowed requests
\* are kept only while logging
Observe(w, opener, seq, t, ok) ==
    [first       |-> IF opener THEN t ELSE w.first,
     seq         |-> seq,
     logging     |-> w.logging,
     allowed     |-> IF ~w.logging THEN 0
                     ELSE (IF opener THEN 0 ELSE w.allowed) + (IF ok THEN 1 ELSE 0),
     prevAllowed |-> IF ~w.logging THEN 0
                     ELSE IF opener THEN w.allowed ELSE w.prevAllowed,
     log         |-> IF w.logging /\ ok THEN LogAllowed(w.log, t) ELSE w.log]

\* auth.getUser() resolved: 401 on an invalid token, else the rate limiter
\* runs and, when it allows, the handler awaits req.json().
ChatGetUser(s) ==
    LET r == chatReq[s] IN
    /\ r.pc = "getUser"
    /\ \E userOk \in BOOLEAN :
          /\ r.auth = BadToken => ~userOk
          /\ IF ~userOk
             THEN /\ chatReq' = [chatReq EXCEPT ![s] =
                         ChatRespond(r, 401, "Invalid authentication")]
                  /\ UNCHANGED <<rateLimits, window>>
             ELSE LET res    == checkRateLimit(rateLimits, r.auth, now)
                      w      == window[r.auth]
                      opener == w.seq = 0 \/ now > w.first + RATE_WINDOW_MS
                      seq    == IF opener THEN 1
                                ELSE Min(w.seq + 1, RATE_LIMIT + MaxOverrun)
                      r1     == [r EXCEPT !.limiter = IF res.ok THEN "allowed" ELSE "denied",
                                          !.rlChanged = (res.rl # rateLimits),
                                          !.atReset = (r.auth \in DOMAIN rateLimits
                                                       /\ now = rateLimits[r.auth].resetAt),
                                          !.count = res.rl[r.auth].count,
                                          !.resetAt = res.rl[r.auth].resetAt,
                                          !.seq = seq,
                                          !.reopened = opener /\ w.seq > RATE_LIMIT]
                  IN  /\ rateLimits' = res.rl
                      /\ window' = [window EXCEPT ![r.auth] =
                             Observe(w, opener, seq, now, res.ok)]
                      /\ chatReq' = [chatReq EXCEPT ![s] =
                             IF res.ok
                             THEN [r1 EXCEPT !.pc = "body"]
                             ELSE ChatRespond(r1, 429, "Rate limit exceeded. Please try again later.")]
    /\ UNCHANGED <<now, messages, documents, anReq, recoveryCodes, rcReq>>

GenericError == "Unable to process your request. Please try again."

\* req.json() resolved or threw (500): the schema check, then the history
\* query is awaited.
ChatValidate(s) ==
    LET r == chatReq[s] IN
    /\ r.pc = "body"
    /\ chatReq' = [chatReq EXCEPT ![s] =
           IF ~r.json
           THEN ChatRespond(r, 500, GenericError)
           ELSE IF ChatBodyValid(r)
           THEN [r EXCEPT !.pc = "history"]
           ELSE ChatRespond(r, 400, "Invalid request parameters")]
    /\ UNCHANGED <<now, rateLimits, messages, documents, anReq, window, recoveryCodes, rcReq>>

\* After the prompt parts are known: build aiMessages, check the API key,
\* start the completion call (fetch) and await it.
ChatCallCompletion(r, systemPrompt, history, keyConfigured) ==
    LET r1 == [r EXCEPT !.history = history,
                        !.prompt = BuildPrompt(systemPrompt, history, r.message)]
    IN  IF keyConfigured
        THEN [r1 EXCEPT !.pc = "ai", !.aiCalls = @ + 1]
        ELSE ChatRespond([r1 EXCEPT !.keyMissing = TRUE], 500, GenericError)

\* The history query resolved: an error is thrown (500); otherwise the
\* document lookup is awaited when a documentId was sent, else the
\* completion call is made with the generic instruction.
ChatHistory(s) ==
    LET r == chatReq[s] IN
    /\ r.pc = "history"
    /\ \E messagesError \in BOOLEAN, keyConfigured \in BOOLEAN :
          LET history == HistoryQuery(messages, r.conversationId)
              r0 == [r EXCEPT !.reads = @ + 1]
              r1 == [r0 EXCEPT !.loaded = RowCount(messages, r.conversationId),
                               !.recent = MostRecent(messages, r.conversationId)]
          IN  chatReq' = [chatReq EXCEPT ![s] =
                  IF messagesError THEN ChatRespond(r0, 500, GenericError)
                  ELSE IF r.documentId # Undefined
                  THEN [r1 EXCEPT !.pc = "doc", !.history = history]
                  ELSE ChatCallCompletion(r1, GenericPrompt, history, keyConfigured)]
    /\ UNCHANGED <<now, rateLimits, messages, documents, anReq, window, recoveryCodes, rcReq>>

\* ChatDoc answering 404 when the document lookup fails
ChatDoc_Abort(s) ==
    LET r == chatReq[s] IN
    /\ r.pc = "doc"
    /\ \E storageError \in BOOLEAN, keyConfigured \in BOOLEAN :
          LET docError == storageError \/ ~Visible(documents, r.documentId, r.auth)
              r1 == [r EXCEPT !.reads = @ + 1, !.docError = docError]
          IN  chatReq' = [chatReq EXCEPT ![s] =
                  IF docError
                  THEN ChatRespond(r1, 404, "Document not found")
                  ELSE ChatCallCompletion(r1, DocumentPrompt(documents[r.documentId]),
                                          r.history, keyConfigured)]
    /\ UNCHANGED <<now, rateLimits, messages, documents, anReq, window, recoveryCodes, rcReq>>

\* The document lookup resolved: on an error (no visible row, or a storage
\* failure) the generic instruction is kept; the completion call follows.
ChatDoc(s) ==
    LET r == chatReq[s] IN
    /\ r.pc = "doc"
    /\ \E storageError \in BOOLEAN, keyConfigured \in BOOLEAN :
          LET docError == storageError \/ ~Visible(documents, r.documentId, r.auth)
              systemPrompt == IF docError THEN GenericPrompt
                              ELSE DocumentPrompt(documents[r.documentId])
          IN  chatReq' = [chatReq EXCEPT ![s] =
                  ChatCallCompletion([r EXCEPT !.reads = @ + 1,
                                               !.docError = docError],
                                     systemPrompt, r.history, keyConfigured)]
    /\ UNCHANGED <<now, rateLimits, messages, documents, anReq, window, recoveryCodes, rcReq>>

\* The status the chat handler answers for a completion response
ChatUpstreamStatus(upstream) ==
    IF upstream >= 200 /\ upstream <= 299 THEN 200
    ELSE IF upstream = 429 THEN 429
    ELSE IF upstream = 402 THEN 402
    ELSE 500

ChatUpstreamError(upstream) ==
    IF upstream >= 200 /\ upstream <= 299 THEN ""
    ELSE IF upstream = 429 THEN "Rate limit exceeded. Please try again later."
    ELSE IF upstream = 402 THEN "AI service requires credits. Please add credits to your account."
    ELSE GenericError

Apology == "I apologize, but I couldn't generate a response."

\* ChatAI making the completion call a second time after a first
\* non-success answer
ChatAI_Retry(s) ==
    LET r == chatReq[s] IN
    /\ r.pc = "ai"
    /\ \E outcome \in CallOutcomes, upstream \in UpstreamStatuses,
          content \in {"", "reply"} :
          LET r1 == [r EXCEPT !.upstream = upstream] IN
          chatReq' = [chatReq EXCEPT ![s] =
              IF outcome = "rejected"
              THEN ChatRespond(r, 500, GenericError)
              ELSE IF ChatUpstreamStatus(upstream) # 200 /\ r.aiCalls = 1
              THEN [r1 EXCEPT !.aiCalls = @ + 1]
              ELSE IF ChatUpstreamStatus(upstream) # 200
              THEN ChatRespond(r1, ChatUpstreamStatus(upstream),
                               ChatUpstreamError(upstream))
              ELSE IF outcome = "unreadable"
              THEN ChatRespond(r1, 500, GenericError)
              ELSE [ChatRespond(r1, 200, "") EXCEPT
                       !.response = IF content = "" THEN Apology ELSE content]]
    /\ UNCHANGED <<now, rateLimits, messages, documents, anReq, window, recoveryCodes, rcReq>>

\* The completion call resolved or rejected: 429 and 402 are passed on, any
\* other failure throws (500); a success is answered 200 with the content
\* of the first choice, or with the apology when that content is empty.
ChatAI(s) ==
    LET r == chatReq[s] IN
    /\ r.pc = "ai"
    /\ \E outcome \in CallOutcomes, upstream \in UpstreamStatuses,
          content \in {"", "reply"} :
          LET r1 == [r EXCEPT !.upstream = upstream] IN
          chatReq' = [chatReq EXCEPT ![s] =
              IF outcome = "rejected"
              THEN ChatRespond(r, 500, GenericError)
              ELSE IF ChatUpstreamStatus(upstream) # 200
              THEN ChatRespond(r1, ChatUpstreamStatus(upstream),
                               ChatUpstreamError(upstream))
              ELSE IF outcome = "unreadable"
              THEN ChatRespond(r1, 500, GenericError)
              ELSE [ChatRespond(r1, 200, "") EXCEPT
                       !.response = IF content = "" THEN Apology ELSE content]]
    /\ UNCHANGED <<now, rateLimits, messages, documents, anReq, window, recoveryCodes, rcReq>>

ChatRequests(callers) ==
    \E s \in DOMAIN chatReq :
        \/ ChatStart(s, callers)
        \/ ChatGetUser(s)
        \/ ChatValidate(s)
        \/ ChatHistory(s)
        \/ ChatDoc(s)
        \/ ChatAI(s)

ChatStep == ChatRequests(ChatCallers)

\* The chat UI, handleSend up to the arrival of its request: the trimmed
\* input is inserted as a user row of conversation c1 and, the insert
\* having succeeded, chat is invoked with the same text, the conversation
\* and the document of the view under the session of u1. No send starts
\* while another awaits its reply (loading).
HandleSend(s) ==
    /\ chatReq[s].pc = "idle" \/ (chatReq[s].pc = "done" /\ chatReq[s].status # 200)
    /\ Len(messages) < MaxMsgs
    /\ \E len \in {1, MAX_MESSAGE_LEN}, documentId \in {Undefined, "d1"} :
          LET userMsg == MessageRow("c1", "user", Len(messages) + 1)
              body    == [ChatBody(len, userMsg.conversation_id, documentId)
                             EXCEPT !.message.id = userMsg.content.id]
          IN  /\ messages' = Append(messages, userMsg)
              /\ chatReq' = [chatReq EXCEPT ![s] =
                     [IdleChat EXCEPT !.auth = "u1",
                                      !.json = body.json,
                                      !.message = body.message,
                                      !.conversationId = body.conversationId,
                                      !.documentId = body.documentId,
                                      !.pc = "getUser"]]
    /\ UNCHANGED <<now, rateLimits, documents, anReq, window, recoveryCodes, rcReq>>

\* handleSend after a 200 answer: the reply is inserted as an assistant row
\* and the view takes input again.
HandleReply(s) ==
    /\ chatReq[s].pc = "done"
    /\ chatReq[s].status = 200
    /\ messages' = Append(messages, MessageRow("c1", "assistant", Len(messages) + 1))
    /\ chatReq' = [chatReq EXCEPT ![s].pc = "idle"]
    /\ UNCHANGED <<now, rateLimits, documents, anReq, window, recoveryCodes, rcReq>>

-----------------------------------------------------------------------------
(* Documents and submitted content *)

FILE_PDF == "application/pdf"

FILE_DOCX == "application/vnd.openxmlformats-officedocument.wordprocessingml.document"

FileTypes == {FILE_PDF, FILE_DOCX, "text/plain", "text/csv", "image/png"}

MAX_CONTENT_LEN == 10 * 1024 * 1024

\* Text is a sequence of characters; a content is its text and its length
\* (for the oversize content only a prefix of the text is spelled out).
Content(text) == [text |-> text, len |-> Len(text)]

PlainText == <<"h", "i">>

PdfText == <<"%", "P", "D", "F", "-", "1">>

\* The digits of base64
Base64Digits ==
    <<"A", "B", "C", "D", "E", "F", "G", "H", "I", "J", "K", "L", "M", "N", "O", "P",
    "Q", "R", "S", "T", "U", "V", "W", "X", "Y", "Z", "a", "b", "c", "d", "e", "f",
    "g", "h", "i", "j", "k", "l", "m", "n", "o", "p", "q", "r", "s", "t", "u", "v",
    "w", "x", "y", "z", "0", "1", "2", "3", "4", "5", "6", "7", "8", "9", "+", "/">>

RECURSIVE Btoa(_)
\* btoa(binary) for the string whose character codes are the given bytes:
\* three bytes give four digits, a last group of one or two bytes is
\* padded with "="
Btoa(bytes) ==
    IF bytes = <<>> THEN <<>>
    ELSE LET n  == Len(bytes)
             b2 == IF n >= 2 THEN bytes[2] ELSE 0
             b3 == IF n >= 3 THEN bytes[3] ELSE 0
             v  == bytes[1] * 65536 + b2 * 256 + b3
         IN  <<Base64Digits[(v \div 262144) + 1],
               Base64Digits[((v \div 4096) % 64) + 1],
               IF n >= 2 THEN Base64Digits[((v \div 64) % 64) + 1] ELSE "=",
               IF n >= 3 THEN Base64Digits[(v % 64) + 1] ELSE "=">>
             \o (IF n > 3 THEN Btoa(SubSeq(bytes, 4, n)) ELSE <<>>)

\* The bytes of "%PDF-1", of a ZIP local file header "PK\x03\x04", of "hi"
PdfBytes == <<37, 80, 68, 70, 45, 49>>

DocxBytes == <<80, 75, 3, 4>>

TextBytes == <<104, 105>>

\* What the upload UI sends for a PDF file and for a DOCX file
PdfBase64 == Btoa(PdfBytes)

DocxBase64 == Btoa(DocxBytes)

DocxRaw == <<"P", "K", "-", "x">>

\* an inline event handler, in capitals and with a blank before the "="
OnHandler == <<"<", "a", " ", "O", "N", "c", "l", "i", "c", "k", " ", "=">>

\* ten control characters (form feed, 0x0C) in a row
Binary10 == <<"\f", "\f", "\f", "\f", "\f", "\f", "\f", "\f", "\f", "\f">>

\* a PDF header followed by an iframe tag
PdfIframe == <<"%", "P", "D", "F", "<", "i", "f", "r", "a", "m", "e">>

AnalyzeContents ==
    {Content(PlainText), Content(PdfText), Content(PdfBase64), Content(DocxRaw),
     Content(OnHandler), Content(Binary10), Content(PdfIframe), Content(<<>>),
     [text |-> PlainText, len |-> MAX_CONTENT_LEN + 1]}

\* The row the upload UI inserts: status processing, analysis fields NULL
FreshDocument(owner, fileType, content) ==
    [user_id |-> owner, file_type |-> fileType, content |-> content,
     status |-> "processing",
     summary |-> NULL, key_points |-> NULL, sentiment |-> NULL,
     keywords |-> NULL, entities |-> NULL]

\* What the upload UI stores as content for a file of the given type
StoredContent(fileType) ==
    IF fileType = FILE_PDF THEN PdfBase64
    ELSE IF fileType = FILE_DOCX THEN DocxBase64
    ELSE PlainText

\* update(patch).eq("id", id) on one row: the columns of the patch are set,
\* the others keep their value
DbUpdate(doc, patch) ==
    [c \in DOMAIN doc |-> IF c \in DOMAIN patch THEN patch[c] ELSE doc[c]]

-----------------------------------------------------------------------------
(* validateContentType *)

UpperCase == <<"A", "B", "C", "D", "E", "F", "G", "H", "I", "J", "K", "L", "M",
               "N", "O", "P", "Q", "R", "S", "T", "U", "V", "W", "X", "Y", "Z">>

LowerCase == <<"a", "b", "c", "d", "e", "f", "g", "h", "i", "j", "k", "l", "m",
               "n", "o", "p", "q", "r", "s", "t", "u", "v", "w", "x", "y", "z">>

Digits == {"0", "1", "2", "3", "4", "5", "6", "7", "8", "9"}

\* the i flag: characters are compared in lower case
Lower(c) ==
    IF \E i \in 1..26 : UpperCase[i] = c
    THEN LowerCase[CHOOSE i \in 1..26 : UpperCase[i] = c]
    ELSE c

LowerText(text) == [i \in DOMAIN text |-> Lower(text[i])]

\* \w, \s and the class [\x00-\x08\x0B-\x0C\x0E-\x1F\x7F-\xFF]
IsWordChar(c) == Lower(c) \in {LowerCase[i] : i \in 1..26} \cup Digits \cup {"_"}

IsSpace(c) == c \in {" ", "\t", "\n", "\r", "\f"}

IsBinaryChar(c) == c \in {"\f"}

\* pat occurs in text at position i
OccursAt(text, i, pat) ==
    /\ i >= 1
    /\ i + Len(pat) - 1 <= Len(text)
    /\ SubSeq(text, i, i + Len(pat) - 1) = pat

Includes(text, pat) == \E i \in 1..Len(text) : OccursAt(text, i, pat)

StartsWith(text, pat) == OccursAt(text, 1, pat)

\* /<script[\s\S]*?>[\s\S]*?<\/script>/gi
HasScriptTag(text) ==
    LET t == LowerText(text) IN
    \E i, j, k \in 1..Len(t) :
        /\ OccursAt(t, i, <<"<", "s", "c", "r", "i", "p", "t">>)
        /\ j >= i + 7 /\ t[j] = ">"
        /\ k > j /\ OccursAt(t, k, <<"<", "/", "s", "c", "r", "i", "p", "t", ">">>)

\* /on\w+\s*=/gi
HasEventHandler(text) ==
    LET t == LowerText(text) IN
    \E i, w, e \in 1..Len(t) :
        /\ OccursAt(t, i, <<"o", "n">>)
        /\ w >= i + 2 /\ e > w /\ t[e] = "="
        /\ \A k \in (i + 2)..w : IsWordChar(t[k])
        /\ \A k \in (w + 1)..(e - 1) : IsSpace(t[k])

\* some pattern of maliciousPatterns matches
Malicious(text) ==
    \/ HasScriptTag(text)
    \/ Includes(LowerText(text), <<"j", "a", "v", "a", "s", "c", "r", "i", "p", "t", ":">>)
    \/ HasEventHandler(text)
    \/ Includes(LowerText(text), <<"<", "i", "f", "r", "a", "m", "e">>)
    \/ Includes(LowerText(text), <<"<", "e", "m", "b", "e", "d">>)
    \/ Includes(LowerText(text), <<"<", "o", "b", "j", "e", "c", "t">>)

BINARY_RUN == 10

\* /[\x00-\x08\x0B-\x0C\x0E-\x1F\x7F-\xFF]{10,}/
HasBinaryRun(text) ==
    \E i \in 1..Len(text) :
        /\ i + BINARY_RUN - 1 <= Len(text)
        /\ \A k \in i..(i + BINARY_RUN - 1) : IsBinaryChar(text[k])

validateContentType(text, fileType) ==
    IF Malicious(text)
    THEN [valid |-> FALSE, reason |-> "Potentially malicious content detected"]
    ELSE IF fileType = FILE_PDF
    THEN IF ~StartsWith(text, <<"%", "P", "D", "F">>)
         THEN [valid |-> FALSE, reason |-> "Invalid PDF format"]
         ELSE [valid |-> TRUE, reason |-> ""]
    ELSE IF fileType = FILE_DOCX
    THEN IF ~Includes(text, <<"P", "K">>) /\ ~Includes(text, <<"<", "?", "x", "m", "l">>)
         THEN [valid |-> FALSE, reason |-> "Invalid DOCX format"]
         ELSE [valid |-> TRUE, reason |-> ""]
    ELSE IF fileType = "text/plain" \/ fileType = "text/csv"
    THEN IF HasBinaryRun(text)
         THEN [valid |-> FALSE, reason |-> "Text file contains binary content"]
         ELSE [valid |-> TRUE, reason |-> ""]
    ELSE [valid |-> FALSE, reason |-> "Unsupported file type"]

-----------------------------------------------------------------------------
(* Result Parser *)

\* A completion text is a sequence of lexical pieces: the fence, the
\* word json, a newline, prose that is no JSON, and whole JSON values.
FENCE == "~~~"            \* three backquotes

JSONWORD == "json"

NL == "\n"

PROSE == "Here is the analysis"

\* JSON values the completion service may spell out: two objects with all
\* five fields, an object with the summary only, {}, null and a number.
JsonTokens == {"{full A}", "{full B}", "{summary}", "{}", "null", "42"}

ObjectValue(props) == [type |-> "object", props |-> props]

\* JSON.parse of one value
JsonValue(tok) ==
    IF tok = "{full A}" THEN ObjectValue([f \in AnalysisFields |-> "A"])
    ELSE IF tok = "{full B}" THEN ObjectValue([f \in AnalysisFields |-> "B"])
    ELSE IF tok = "{summary}"
    THEN ObjectValue([f \in AnalysisFields |-> IF f = "summary" THEN "A" ELSE Undefined])
    ELSE IF tok = "{}" THEN ObjectValue([f \in AnalysisFields |-> Undefined])
    ELSE IF tok = "null" THEN [type |-> "null", props |-> [f \in AnalysisFields |-> Undefined]]
    ELSE [type |-> "number", props |-> [f \in AnalysisFields |-> Undefined]]

NotNewline(piece) == piece # NL

\* JSON.parse(text) returns (does not throw): one value, white space around it
JsonValid(text) ==
    LET body == SelectSeq(text, NotNewline)
    IN  Len(body) = 1 /\ body[1] \in JsonTokens

JsonParse(text) == JsonValue(SelectSeq(text, NotNewline)[1])

FallbackAnalysis ==
    ObjectValue([f \in AnalysisFields |->
        IF f = "summary" THEN "Document uploaded successfully. Analysis details may be incomplete."
        ELSE IF f = "key_points" THEN "[Content available for chat]"
        ELSE IF f = "sentiment" THEN "neutral"
        ELSE IF f = "keywords" THEN "[]"
        ELSE "{}"])

\* text.match(open, group, newline, fence): the leftmost place where open occurs
\* with a newline and a fence somewhere after it, and the shortest group
RegexCapture(text, open) ==
    LET closes(i) == {j \in (i + Len(open))..(Len(text) - 1) :
                          text[j] = NL /\ text[j + 1] = FENCE}
        starts    == {i \in 1..Len(text) : OccursAt(text, i, open) /\ closes(i) # {}}
    IN  IF starts = {} THEN [found |-> FALSE, group |-> <<>>]
        ELSE LET i == CHOOSE a \in starts : \A b \in starts : a <= b
                 j == CHOOSE a \in closes(i) : \A b \in closes(i) : a <= b
             IN  [found |-> TRUE, group |-> SubSeq(text, i + Len(open), j - 1)]

\* ParseAnalysis with the two patterns tried in the other order
ParseAnalysis_UnmarkedFirst(analysisText) ==
    LET marked   == RegexCapture(analysisText, <<FENCE, JSONWORD, NL>>)
        unmarked == RegexCapture(analysisText, <<FENCE, NL>>)
        jsonText == IF unmarked.found THEN unmarked.group
                    ELSE IF marked.found THEN marked.group
                    ELSE analysisText
    IN  IF JsonValid(jsonText)
        THEN [threw |-> FALSE, analysis |-> JsonParse(jsonText)]
        ELSE [threw |-> TRUE, analysis |-> FallbackAnalysis]

\* The try/catch around JSON.parse: the analysis, and whether parsing threw
ParseAnalysis(analysisText) ==
    LET marked   == RegexCapture(analysisText, <<FENCE, JSONWORD, NL>>)
        unmarked == RegexCapture(analysisText, <<FENCE, NL>>)
        jsonText == IF marked.found THEN marked.group
                    ELSE IF unmarked.found THEN unmarked.group
                    ELSE analysisText
    IN  IF JsonValid(jsonText)
        THEN [threw |-> FALSE, analysis |-> JsonParse(jsonText)]
        ELSE [threw |-> TRUE, analysis |-> FallbackAnalysis]

\* Completion texts: up to MaxSegments segments, each prose, a bare JSON
\* value, a fenced block (marked json or unmarked) around a value or around
\* prose, or a marked fence without the newlines.
Segments ==
    {<<PROSE>>}
    \cup {<<v>> : v \in JsonTokens}
    \cup {<<FENCE, JSONWORD, NL, v, NL, FENCE>> :
              v \in {"{full A}", "{full B}", "{}", "null", PROSE}}
    \cup {<<FENCE, NL, v, NL, FENCE>> : v \in {"{full A}", "{summary}", PROSE}}
    \cup {<<FENCE, JSONWORD, "{full A}", FENCE>>}

MaxSegments == 2

RECURSIVE TextsOf(_)
TextsOf(n) ==
    IF n = 0 THEN {<<>>}
    ELSE LET shorter == TextsOf(n - 1)
         IN  shorter \cup {t \o seg : t \in shorter, seg \in Segments}

CompletionTexts == TextsOf(MaxSegments)

\* Observer: the values of all well-formed fenced-json blocks of a text (the
\* fence with the word json and a newline, an interior without newline+fence
\* that is valid JSON, a newline and the closing fence)
JsonBlocks(text) ==
    {JsonParse(SubSeq(text, i + 3, j - 1)) :
        <<i, j>> \in {p \in (1..Len(text)) \X (1..Len(text)) :
            /\ OccursAt(text, p[1], <<FENCE, JSONWORD, NL>>)
            /\ p[2] >= p[1] + 3
            /\ OccursAt(text, p[2], <<NL, FENCE>>)
            /\ \A k \in (p[1] + 3)..(p[2] - 1) : ~OccursAt(text, k, <<NL, FENCE>>)
            /\ JsonValid(SubSeq(text, p[1] + 3, p[2] - 1))}}

\* Observer: the same for the first fenced-json block of the text only
FirstJsonBlock(text) ==
    {JsonParse(SubSeq(text, i + 3, j - 1)) :
        <<i, j>> \in {p \in (1..Len(text)) \X (1..Len(text)) :
            /\ OccursAt(text, p[1], <<FENCE, JSONWORD, NL>>)
            /\ p[2] >= p[1] + 3
            /\ OccursAt(text, p[2], <<NL, FENCE>>)
            /\ \A k \in (p[1] + 3)..(p[2] - 1) : ~OccursAt(text, k, <<NL, FENCE>>)
            /\ \A q \in 1..(p[1] - 1) :
                   ~(/\ OccursAt(text, q, <<FENCE, JSONWORD, NL>>)
                     /\ \E c \in (q + 3)..Len(text) : OccursAt(text, c, <<NL, FENCE>>))
            /\ JsonValid(SubSeq(text, p[1] + 3, p[2] - 1))}}

-----------------------------------------------------------------------------
(* analyze-document handler *)

AnalyzeBody(doc, content) == [json |-> TRUE, documentId |-> doc, content |-> content]

MalformedAnalyzeBody == [AnalyzeBody(Undefined, Content(<<>>)) EXCEPT !.json = FALSE]

\* Request bodies: any content for the stored document d1, plain text for
\* an unknown document and for an id that is no UUID, and a body that is no
\* JSON at all (req.json() throws).
AnalyzeBodies ==
    {AnalyzeBody("d1", c) : c \in AnalyzeContents}
    \cup {AnalyzeBody("d9", Content(PlainText)),
          AnalyzeBody("not-a-uuid", Content(PlainText)),
          MalformedAnalyzeBody}

\* analyzeRequestSchema.safeParse(body).success
AnalyzeBodyValid(r) ==
    /\ IsUuid(r.documentId)
    /\ r.content.len >= 1
    /\ r.content.len <= MAX_CONTENT_LEN

NoAnalysis == [type |-> "none", props |-> [f \in AnalysisFields |-> Undefined]]

IdleAnalyze ==
    [pc |-> "idle", auth |-> NoHeader, json |-> TRUE, documentId |-> Undefined,
     content |-> Content(<<>>), doc0 |-> NULL,
     validation |-> "none", markApplied |-> FALSE,
     upstream |-> 0, jsonBlocks |-> {}, firstJson |-> {}, threw |-> FALSE,
     analysis |-> NoAnalysis, updateError |-> FALSE,
     aiCalls |-> 0, reads |-> 0, writes |-> 0, status |-> 0, error |-> ""]

AnalyzeRespond(r, status, error) ==
    [r EXCEPT !.pc = "done", !.status = status, !.error = error]

AnalyzeError == "Unable to analyze document. Please try again."

\* A request arrives: 401 without Authorization header, else req.json() is
\* awaited.
AnalyzeStart(s) ==
    /\ anReq[s].pc \in {"idle", "done"}
    /\ \E auth \in {NoHeader, BadToken} \cup Users, body \in AnalyzeBodies :
          LET r == [IdleAnalyze EXCEPT !.auth = auth,
                                       !.json = body.json,
                                       !.documentId = body.documentId,
                                       !.content = body.content]
          IN  anReq' = [anReq EXCEPT ![s] =
                  IF auth = NoHeader
                  THEN AnalyzeRespond(r, 401, "Authentication required")
                  ELSE [r EXCEPT !.pc = "body"]]
    /\ UNCHANGED <<now, rateLimits, messages, documents, chatReq, window, recoveryCodes, rcReq>>

\* req.json() resolved or threw (500): the schema check, then the document
\* fetch is awaited.
AnalyzeValidate(s) ==
    LET r == anReq[s] IN
    /\ r.pc = "body"
    /\ anReq' = [anReq EXCEPT ![s] =
           IF ~r.json
           THEN AnalyzeRespond(r, 500, AnalyzeError)
           ELSE IF AnalyzeBodyValid(r)
           THEN [r EXCEPT !.pc = "fetch"]
           ELSE AnalyzeRespond(r, 400, "Invalid request parameters")]
    /\ UNCHANGED <<now, rateLimits, messages, documents, chatReq, window, recoveryCodes, rcReq>>

\* The document fetch resolved: 404 when no row is visible under the
\* caller's token; else validateContentType decides between the update to
\* status failed and the completion call, whichever is awaited next.
AnalyzeFetch(s) ==
    LET r == anReq[s] IN
    /\ r.pc = "fetch"
    /\ \E storageError \in BOOLEAN, keyConfigured \in BOOLEAN :
          anReq' = [anReq EXCEPT ![s] =
              IF storageError \/ ~Visible(documents, r.documentId, r.auth)
              THEN AnalyzeRespond([r EXCEPT !.reads = @ + 1], 404, "Document not found")
              ELSE LET document == documents[r.documentId]
                       contentValidation ==
                           validateContentType(r.content.text, document.file_type)
                       r1 == [r EXCEPT !.doc0 = document, !.reads = @ + 1]
                   IN  IF ~contentValidation.valid
                       THEN [r1 EXCEPT !.pc = "markFailed",
                                       !.validation = "rejected",
                                       !.error = contentValidation.reason]
                       ELSE IF ~keyConfigured
                       THEN AnalyzeRespond([r1 EXCEPT !.validation = "accepted"],
                                           500, AnalyzeError)
                       ELSE [r1 EXCEPT !.pc = "ai", !.validation = "accepted",
                                       !.aiCalls = @ + 1]]
    /\ UNCHANGED <<now, rateLimits, messages, documents, chatReq, window, recoveryCodes, rcReq>>

\* FailedPatch with the status of the success path
FailedPatch_Completed == [status |-> "completed"]

\* The object passed to update() when the content is rejected
FailedPatch == [status |-> "failed"]

\* update({ status: "failed" }) resolved; its result is not looked at. The
\* handler answers 400 with the validation reason.
AnalyzeMarkFailed(s) ==
    LET r == anReq[s] IN
    /\ r.pc = "markFailed"
    /\ \E applied \in BOOLEAN :
          /\ documents' = IF applied
                          THEN [documents EXCEPT ![r.documentId] =
                                   DbUpdate(@, FailedPatch)]
                          ELSE documents
          /\ anReq' = [anReq EXCEPT ![s] =
                 AnalyzeRespond([r EXCEPT !.markApplied = applied,
                                          !.writes = @ + 1],
                                400, r.error)]
    /\ UNCHANGED <<now, rateLimits, messages, chatReq, window, recoveryCodes, rcReq>>

\* The status the analyze-document handler answers for a completion response
AnalyzeUpstreamStatus(upstream) ==
    IF upstream >= 200 /\ upstream <= 299 THEN 200 ELSE 500

\* The object passed to update(): the properties of the analysis that are
\* not undefined (JSON.stringify drops the others) and status completed
AnalysisPatch(analysis) ==
    [c \in {f \in AnalysisFields : analysis.props[f] # Undefined} \cup {"status"} |->
        IF c = "status" THEN "completed" ELSE analysis.props[c]]

\* The completion call resolved or rejected: a rejection, a non-success
\* status or an unreadable body throws (500); else the text is parsed and
\* the update is awaited. Reading a property of null throws as well.
AnalyzeAI(s) ==
    LET r == anReq[s] IN
    /\ r.pc = "ai"
    /\ \E outcome \in CallOutcomes, upstream \in UpstreamStatuses,
          content \in CompletionTexts :
          LET r1           == [r EXCEPT !.upstream = upstream]
              analysisText == IF content = <<>> THEN <<"{}">> ELSE content
              parsed       == ParseAnalysis(analysisText)
              r2           == [r1 EXCEPT !.jsonBlocks = JsonBlocks(analysisText),
                                          !.firstJson = FirstJsonBlock(analysisText),
                                          !.threw = parsed.threw,
                                          !.analysis = parsed.analysis]
          IN  anReq' = [anReq EXCEPT ![s] =
                  IF outcome = "rejected"
                  THEN AnalyzeRespond(r, 500, AnalyzeError)
                  ELSE IF AnalyzeUpstreamStatus(upstream) # 200 \/ outcome = "unreadable"
                  THEN AnalyzeRespond(r1, 500, AnalyzeError)
                  ELSE IF parsed.analysis.type = "null"
                  THEN AnalyzeRespond(r2, 500, AnalyzeError)
                  ELSE [r2 EXCEPT !.pc = "save"]]
    /\ UNCHANGED <<now, rateLimits, messages, documents, chatReq, window, recoveryCodes, rcReq>>

\* The update with the analysis resolved: an error throws (500); else the
\* row has the patch and the handler answers 200 with the analysis.
AnalyzeSave(s) ==
    LET r == anReq[s] IN
    /\ r.pc = "save"
    /\ \E updateError \in BOOLEAN :
          /\ documents' = IF updateError THEN documents
                          ELSE [documents EXCEPT ![r.documentId] =
                                   DbUpdate(@, AnalysisPatch(r.analysis))]
          /\ anReq' = [anReq EXCEPT ![s] =
                 IF updateError
                 THEN AnalyzeRespond([r EXCEPT !.updateError = TRUE, !.writes = @ + 1],
                                     500, AnalyzeError)
                 ELSE AnalyzeRespond([r EXCEPT !.writes = @ + 1], 200, "")]
    /\ UNCHANGED <<now, rateLimits, messages, chatReq, window, recoveryCodes, rcReq>>

AnalyzeStep ==
    \E s \in Slots :
        \/ AnalyzeStart(s)
        \/ AnalyzeValidate(s)
        \/ AnalyzeFetch(s)
        \/ AnalyzeMarkFailed(s)
        \/ AnalyzeAI(s)
        \/ AnalyzeSave(s)

-----------------------------------------------------------------------------
(* Upload UI *)

\* A selected file: the extension of its name, the type the browser
\* reports, its bytes
File(extension, type, bytes) ==
    [extension |-> extension, type |-> type, bytes |-> bytes]

Files ==
    {File("pdf", FILE_PDF, PdfBytes),
     File("docx", FILE_DOCX, DocxBytes),
     File("docx", "application/octet-stream", DocxBytes),
     File("txt", "text/plain", TextBytes),
     File("csv", "text/csv", TextBytes),
     File("pdf", FILE_PDF, TextBytes),
     File("png", "image/png", TextBytes)}

HexDigits == <<"0", "1", "2", "3", "4", "5", "6", "7", "8", "9",
               "a", "b", "c", "d", "e", "f">>

RECURSIVE HexHeader(_)
\* header: every byte as toString(16).padStart(2, "0")
HexHeader(bytes) ==
    IF bytes = <<>> THEN <<>>
    ELSE <<HexDigits[(Head(bytes) \div 16) + 1], HexDigits[(Head(bytes) % 16) + 1]>>
         \o HexHeader(Tail(bytes))

\* signatures[extension]
Signatures(extension) ==
    IF extension = "pdf" THEN {<<"2", "5", "5", "0", "4", "4", "4", "6">>}
    ELSE IF extension = "docx"
    THEN {<<"5", "0", "4", "b", "0", "3", "0", "4">>,
          <<"5", "0", "4", "b", "0", "5", "0", "6">>,
          <<"5", "0", "4", "b", "0", "7", "0", "8">>}
    ELSE {}

\* validateFileSignature(file), on the first 8 bytes
validateFileSignature(file) ==
    LET header == HexHeader(SubSeq(file.bytes, 1, Min(Len(file.bytes), 8)))
    IN  IF file.extension = "txt" \/ file.extension = "csv" THEN TRUE
        ELSE \E sig \in Signatures(file.extension) : StartsWith(header, sig)

\* handleFileChange keeps the file: extension, MIME type, size and, for
\* pdf and docx, the signature are as required
FileAccepted(file) ==
    /\ file.extension \in {"pdf", "docx", "txt", "csv"}
    /\ file.type \in {FILE_PDF, FILE_DOCX, "text/plain", "text/csv",
                       "application/octet-stream"}
    /\ Len(file.bytes) <= MAX_CONTENT_LEN
    /\ file.extension \in {"pdf", "docx"} => validateFileSignature(file)

\* The characters with codes 97..122
Letters ==
    <<"a", "b", "c", "d", "e", "f", "g", "h", "i", "j", "k", "l", "m",
      "n", "o", "p", "q", "r", "s", "t", "u", "v", "w", "x", "y", "z">>

\* readAsText on bytes that are lower-case letters
ReadAsText(bytes) == [i \in DOMAIN bytes |-> Letters[bytes[i] - 96]]

\* content in handleUpload: base64 of the bytes for pdf and docx, the text
\* otherwise
UploadContent(file) ==
    IF file.extension = "pdf" \/ file.extension = "docx"
    THEN Btoa(file.bytes)
    ELSE ReadAsText(file.bytes)

NoDocuments == [d \in {} |-> NULL]

\* handleUpload up to the arrival of its request: the row is inserted with
\* status processing and the content, and analyze-document is invoked with
\* the id of the row and the same content under the session of u1.
HandleUpload(s) ==
    /\ anReq[s].pc = "idle"
    /\ documents = NoDocuments
    /\ \E file \in Files :
          /\ FileAccepted(file)
          /\ LET content == UploadContent(file)
                 body    == AnalyzeBody("d1", Content(content))
             IN  /\ documents' = [d \in {body.documentId} |->
                        FreshDocument("u1", file.type, content)]
                 /\ anReq' = [anReq EXCEPT ![s] =
                        [IdleAnalyze EXCEPT !.auth = "u1",
                                            !.json = body.json,
                                            !.documentId = body.documentId,
                                            !.content = body.content,
                                            !.pc = "body"]]
    /\ UNCHANGED <<now, rateLimits, messages, chatReq, window, recoveryCodes, rcReq>>

-----------------------------------------------------------------------------
(* generate-recovery-codes handler *)

CODE_COUNT == 8

CODE_BYTES == 9

CODE_LEN == 12

RADIX == 36

Base36 == <<"0", "1", "2", "3", "4", "5", "6", "7", "8", "9",
            "A", "B", "C", "D", "E", "F", "G", "H", "I", "J", "K", "L", "M",
            "N", "O", "P", "Q", "R", "S", "T", "U", "V", "W", "X", "Y", "Z">>

\* byte.toString(36).toUpperCase(), for a byte 0..255: one or two digits
ToString36(byte) ==
    IF byte < RADIX THEN <<Base36[byte + 1]>>
    ELSE <<Base36[(byte \div RADIX) + 1], Base36[(byte % RADIX) + 1]>>

\* parts.join("")
RECURSIVE Join(_)
Join(parts) ==
    IF parts = <<>> THEN <<>> ELSE Head(parts) \o Join(Tail(parts))

\* The code built from one array of random bytes
Code(array) ==
    LET text == Join([i \in DOMAIN array |-> ToString36(array[i])])
    IN  SubSeq(text, 1, Min(Len(text), CODE_LEN))

\* SHA-256 of the code, as hex text: a text that is no code and tells
\* nothing but which code it was computed from
Sha256Hex(code) == <<"sha256">> \o code

\* What crypto.getRandomValues may give in the CODE_COUNT rounds of one
\* call: arrays that differ in their first two bytes, or zero bytes only
Batch(k) ==
    [i \in 1..CODE_COUNT |->
        [j \in 1..CODE_BYTES |-> IF j = 1 THEN k ELSE IF j = 2 THEN i ELSE 255]]

ZeroBatch == [i \in 1..CODE_COUNT |-> [j \in 1..CODE_BYTES |-> 0]]

RandomBatches == {Batch(1), Batch(2), ZeroBatch}

\* codeHashes.map(hash => ({ user_id, code_hash }))
CodesToInsert(userId, codeHashes) ==
    [i \in DOMAIN codeHashes |-> [user_id |-> userId, code_hash |-> codeHashes[i]]]

OtherUsersRow(userId, row) == row.user_id # userId

\* delete().eq("user_id", userId) without the filter
DeleteCodes_AllUsers(table, userId) == <<>>

\* a delete that reports success and removes nothing
DeleteCodes_None(table, userId) == table

\* delete().eq("user_id", userId)
DeleteCodes(table, userId) ==
    SelectSeq(table, LAMBDA row : OtherUsersRow(userId, row))

\* insert(rows)
InsertCodes(table, rows) == table \o rows

\* Observer: the rows of one user, and the rows of all other users
RowsOf(table, userId) ==
    SelectSeq(table, LAMBDA row : ~OtherUsersRow(userId, row))

RowsOfOthers(table, userId) ==
    SelectSeq(table, LAMBDA row : OtherUsersRow(userId, row))

RcSlots == {1, 2}

IdleRc ==
    [pc |-> "idle", auth |-> NoHeader, recoveryCodes |-> <<>>, codeHashes |-> <<>>,
     prior |-> <<>>, stored |-> <<>>, touchedOthers |-> FALSE,
     reads |-> 0, writes |-> 0, status |-> 0, error |-> "",
     recovery_codes |-> <<>>]

RcRespond(r, status, error) ==
    [r EXCEPT !.pc = "done", !.status = status, !.error = error]

RcInFlight(r) == r.pc \notin {"idle", "done"}

\* A request arrives: the client is created with whatever Authorization
\* header came and auth.getUser() is awaited. With exclusive, a user has
\* one call in flight at a time.
RcStart(s, exclusive) ==
    /\ ~RcInFlight(rcReq[s])
    /\ \E auth \in {NoHeader, BadToken} \cup Users :
          /\ (exclusive /\ auth \in Users) =>
                 \A t \in RcSlots \ {s} :
                     ~(RcInFlight(rcReq[t]) /\ rcReq[t].auth = auth)
          /\ rcReq' = [rcReq EXCEPT ![s] =
                 [IdleRc EXCEPT !.auth = auth, !.pc = "getUser"]]
    /\ UNCHANGED <<now, rateLimits, messages, documents, chatReq, anReq, window,
                   recoveryCodes>>

\* auth.getUser() resolved: 401 without a user; else the CODE_COUNT codes
\* and their hashes are computed and the delete is awaited.
RcGetUser(s) ==
    LET r == rcReq[s] IN
    /\ r.pc = "getUser"
    /\ \E userOk \in BOOLEAN, batch \in RandomBatches :
          /\ r.auth \notin Users => ~userOk
          /\ LET codes  == [i \in 1..CODE_COUNT |-> Code(batch[i])]
                 hashes == [i \in 1..CODE_COUNT |-> Sha256Hex(codes[i])]
             IN  rcReq' = [rcReq EXCEPT ![s] =
                     IF ~userOk
                     THEN RcRespond(r, 401, "Unauthorized")
                     ELSE [r EXCEPT !.pc = "delete",
                                    !.recoveryCodes = codes,
                                    !.codeHashes = hashes]]
    /\ UNCHANGED <<now, rateLimits, messages, documents, chatReq, anReq, window,
                   recoveryCodes>>

\* The delete resolved: an error is answered 500; else the user's rows are
\* gone and the insert is awaited.
RcDelete(s) ==
    LET r == rcReq[s] IN
    /\ r.pc = "delete"
    /\ \E deleteError \in BOOLEAN :
          LET table == IF deleteError THEN recoveryCodes
                       ELSE DeleteCodes(recoveryCodes, r.auth)
              r1 == [r EXCEPT !.prior = RowsOf(recoveryCodes, r.auth),
                              !.writes = @ + 1,
                              !.touchedOthers = @ \/
                                  RowsOfOthers(table, r.auth) #
                                  RowsOfOthers(recoveryCodes, r.auth)]
          IN  /\ recoveryCodes' = table
              /\ rcReq' = [rcReq EXCEPT ![s] =
                     IF deleteError
                     THEN RcRespond(r1, 500, "Failed to delete old recovery codes")
                     ELSE [r1 EXCEPT !.pc = "insert"]]
    /\ UNCHANGED <<now, rateLimits, messages, documents, chatReq, anReq, window>>

\* The insert resolved: an error is answered 500 with an error body; else
\* the rows are stored and the body of the 200 answer carries the codes.
RcInsert(s) ==
    LET r == rcReq[s] IN
    /\ r.pc = "insert"
    /\ \E insertError \in BOOLEAN :
          LET table == IF insertError THEN recoveryCodes
                       ELSE InsertCodes(recoveryCodes,
                                        CodesToInsert(r.auth, r.codeHashes))
              r1 == [r EXCEPT !.stored = RowsOf(table, r.auth),
                              !.writes = @ + 1,
                              !.touchedOthers = @ \/
                                  RowsOfOthers(table, r.auth) #
                                  RowsOfOthers(recoveryCodes, r.auth)]
          IN  /\ recoveryCodes' = table
              /\ rcReq' = [rcReq EXCEPT ![s] =
                     IF insertError
                     THEN RcRespond(r1, 500, "Failed to store recovery codes")
                     ELSE [RcRespond(r1, 200, "") EXCEPT
                               !.recovery_codes = r.recoveryCodes]]
    /\ UNCHANGED <<now, rateLimits, messages, documents, chatReq, anReq, window>>

RcStep(exclusive) ==
    \E s \in RcSlots :
        \/ RcStart(s, exclusive)
        \/ RcGetUser(s)
        \/ RcDelete(s)
        \/ RcInsert(s)

-----------------------------------------------------------------------------
(* Specifications *)

InitRequests ==
    /\ chatReq = [s \in Slots |-> IdleChat]
    /\ anReq = [s \in Slots |-> IdleAnalyze]
    /\ rcReq = [s \in RcSlots |-> IdleRc]

\* The process has just started: empty rate-limit map, empty conversation,
\* one uploaded document of user u1.
InitRate ==
    /\ now = 0
    /\ rateLimits = NoEntries
    /\ window = [u \in Users |-> NoWindow]
    /\ messages = <<>>
    /\ documents = [d \in {"d1"} |-> FreshDocument("u1", "text/plain", PlainText)]
    /\ recoveryCodes = <<>>
    /\ InitRequests

NextRate == Tick \/ ChatStep

\* The rate limiter under chat traffic over several windows
SpecRate == InitRate /\ [][NextRate]_vars

\* A document as the analysis leaves it when the completion is {full A}
AnalyzedDocument(owner, fileType, content) ==
    DbUpdate(FreshDocument(owner, fileType, content),
             AnalysisPatch(JsonValue("{full A}")))

\* The process has served RATE_LIMIT - InitHeadroom chat requests of user u1
\* in the window opened at time 0; document d1 belongs to u1 or to u2 and is
\* fresh or analysed.
InitChat ==
    /\ now = 0
    /\ rateLimits = [u \in {"u1"} |->
           [count |-> RATE_LIMIT - InitHeadroom, resetAt |-> RATE_WINDOW_MS]]
    /\ window = [u \in Users |->
           IF u = "u1" THEN [NoWindow EXCEPT !.seq = RATE_LIMIT - InitHeadroom]
           ELSE NoWindow]
    /\ messages = <<>>
    /\ \E owner \in Users :
          documents \in
              {[d \in {"d1"} |-> FreshDocument(owner, "text/plain", PlainText)],
               [d \in {"d1"} |-> AnalyzedDocument(owner, "text/plain", PlainText)]}
    /\ recoveryCodes = <<>>
    /\ InitRequests

NextChat == ChatStep \/ InsertMessage

\* The chat handler over a growing conversation
SpecChat == InitChat /\ [][NextChat]_vars

\* One uploaded document of user u1, of any file type, not yet analysed
InitAnalyze ==
    /\ now = 0
    /\ rateLimits = NoEntries
    /\ window = [u \in Users |-> NoWindow]
    /\ messages = <<>>
    /\ \E fileType \in FileTypes :
          documents = [d \in {"d1"} |->
              FreshDocument("u1", fileType, StoredContent(fileType))]
    /\ recoveryCodes = <<>>
    /\ InitRequests

NextAnalyze == AnalyzeStep

\* The analyze-document handler
SpecAnalyze == InitAnalyze /\ [][NextAnalyze]_vars

\* The table as earlier calls of both users left it
StoredCodes(userId, batch) ==
    CodesToInsert(userId, [i \in 1..CODE_COUNT |-> Sha256Hex(Code(batch[i]))])

\* No recovery codes yet, or codes of both users from earlier calls
InitRecovery ==
    /\ now = 0
    /\ rateLimits = NoEntries
    /\ window = [u \in Users |-> NoWindow]
    /\ messages = <<>>
    /\ documents = [d \in {"d1"} |-> FreshDocument("u1", "text/plain", PlainText)]
    /\ recoveryCodes \in
           {<<>>, StoredCodes("u1", Batch(3)) \o StoredCodes("u2", Batch(4))}
    /\ InitRequests

NextRecovery == RcStep(TRUE)

\* generate-recovery-codes, the calls of one user not overlapping
SpecRecovery == InitRecovery /\ [][NextRecovery]_vars

\* User u1 opened a window at time 0 and has had RATE_LIMIT - InitHeadroom
\* requests allowed, all at time 0 or all but the first one hour later; it
\* is now that hour later, the last instant of the window.
InitSeam ==
    /\ now = RATE_WINDOW_MS
    /\ rateLimits = [u \in {"u1"} |->
           [count |-> RATE_LIMIT - InitHeadroom, resetAt |-> RATE_WINDOW_MS]]
    /\ \E log \in {(0 :> RATE_LIMIT - InitHeadroom),
                     (0 :> 1) @@ (RATE_WINDOW_MS :> RATE_LIMIT - InitHeadroom - 1)} :
          window = [u \in Users |->
              IF u = "u1"
              THEN [first |-> 0, seq |-> RATE_LIMIT - InitHeadroom, logging |-> TRUE,
                    allowed |-> RATE_LIMIT - InitHeadroom, prevAllowed |-> 0,
                    log |-> log]
              ELSE NoWindow]
    /\ messages = <<>>
    /\ documents = [d \in {"d1"} |-> FreshDocument("u1", "text/plain", PlainText)]
    /\ recoveryCodes = <<>>
    /\ InitRequests

\* The clock stops one millisecond after the window has ended.
NextSeam == TickTo(RATE_WINDOW_MS + 1) \/ ChatStep

\* The rate limiter across the seam of two windows, allowed requests logged
SpecSeam == InitSeam /\ [][NextSeam]_vars

RaceSlots == {1, 2}

\* As InitChat, with room for two chat requests in flight at a time
InitRace ==
    /\ now = 0
    /\ rateLimits = [u \in {"u1"} |->
           [count |-> RATE_LIMIT - InitHeadroom, resetAt |-> RATE_WINDOW_MS]]
    /\ window = [u \in Users |->
           IF u = "u1" THEN [NoWindow EXCEPT !.seq = RATE_LIMIT - InitHeadroom]
           ELSE NoWindow]
    /\ messages = <<>>
    /\ documents = [d \in {"d1"} |-> FreshDocument("u1", "text/plain", PlainText)]
    /\ recoveryCodes = <<>>
    /\ chatReq = [s \in RaceSlots |-> IdleChat]
    /\ anReq = [s \in Slots |-> IdleAnalyze]
    /\ rcReq = [s \in RcSlots |-> IdleRc]

NextRace == ChatStep

\* Two chat requests interleaving at their awaits
SpecRace == InitRace /\ [][NextRace]_vars

\* The whole process
Init == InitRate

Next == Tick \/ ChatStep \/ InsertMessage \/ AnalyzeStep \/ RcStep(FALSE)

Spec == Init /\ [][Next]_vars

\* No request of the function has arrived yet
ChatUnused == \A s \in DOMAIN chatReq : chatReq[s] = IdleChat

AnalyzeUnused == \A s \in Slots : anReq[s] = IdleAnalyze

RcUnused(slots) == \A s \in slots : rcReq[s] = IdleRc

\* The three functions are separate deployments: one of them serves
\* requests, one after the other, and the other two get none.
NextHandlers ==
    \/ ChatStep /\ AnalyzeUnused /\ RcUnused(RcSlots)
    \/ AnalyzeStep /\ ChatUnused /\ RcUnused(RcSlots)
    \/ RcStep(TRUE) /\ ChatUnused /\ AnalyzeUnused /\ RcUnused(RcSlots \ {1})'

\* Each handler on its own, from the state of InitChat
SpecHandlers == InitChat /\ [][NextHandlers]_vars

\* User u1 has had RATE_LIMIT - InitHeadroom requests allowed in the window
\* that ends at RATE_WINDOW_MS. Either it is that instant and u2 has made no
\* request yet, or it is a millisecond later and u2 has had as many allowed
\* in a window still open.
InitUsers ==
    /\ \E other \in {NoEntries,
                      [u \in {"u2"} |-> [count |-> RATE_LIMIT - InitHeadroom,
                                         resetAt |-> 2 * RATE_WINDOW_MS]]} :
          /\ rateLimits = MapSet(other, "u1",
                 [count |-> RATE_LIMIT - InitHeadroom, resetAt |-> RATE_WINDOW_MS])
          /\ now = IF other = NoEntries THEN RATE_WINDOW_MS ELSE RATE_WINDOW_MS + 1
    /\ window = [u \in Users |->
           IF u \in DOMAIN rateLimits
           THEN [NoWindow EXCEPT !.seq = rateLimits[u].count,
                                 !.first = rateLimits[u].resetAt - RATE_WINDOW_MS]
           ELSE NoWindow]
    /\ messages = <<>>
    /\ documents = [d \in {"d1"} |-> FreshDocument("u1", "text/plain", PlainText)]
    /\ recoveryCodes = <<>>
    /\ InitRequests

NextUsers == ChatRequests(Users)

\* The chat handler serving two users
SpecUsers == InitUsers /\ [][NextUsers]_vars

\* The rows of conversation c1 after n turns of user and assistant
Conversation(n) ==
    [i \in 1..n |-> MessageRow("c1", IF i % 2 = 1 THEN "user" ELSE "assistant", i)]

\* A chat view of user u1 on conversation c1, which is new or holds
\* HISTORY_LIMIT - 2 or HISTORY_LIMIT rows; no request has been served yet.
InitSend ==
    /\ now = 0
    /\ rateLimits = NoEntries
    /\ window = [u \in Users |-> NoWindow]
    /\ messages \in {Conversation(0), Conversation(HISTORY_LIMIT - 2),
                      Conversation(HISTORY_LIMIT)}
    /\ documents = [d \in {"d1"} |-> FreshDocument("u1", "text/plain", PlainText)]
    /\ recoveryCodes = <<>>
    /\ InitRequests

NextSend ==
    \E s \in DOMAIN chatReq :
        \/ HandleSend(s)
        \/ ChatGetUser(s)
        \/ ChatValidate(s)
        \/ ChatHistory(s)
        \/ ChatDoc(s)
        \/ ChatAI(s)
        \/ HandleReply(s)

\* The send flow of the chat UI, end to end
SpecSend == InitSend /\ [][NextSend]_vars

\* The upload view of user u1; nothing uploaded yet
InitUpload ==
    /\ now = 0
    /\ rateLimits = NoEntries
    /\ window = [u \in Users |-> NoWindow]
    /\ messages = <<>>
    /\ documents = NoDocuments
    /\ recoveryCodes = <<>>
    /\ InitRequests

NextUpload ==
    \E s \in Slots :
        \/ HandleUpload(s)
        \/ AnalyzeValidate(s)
        \/ AnalyzeFetch(s)
        \/ AnalyzeMarkFailed(s)
        \/ AnalyzeAI(s)
        \/ AnalyzeSave(s)

\* One upload, end to end
SpecUpload == InitUpload /\ [][NextUpload]_vars

\* Every call so far came with the token of u1
SameCaller == \A s \in RcSlots : rcReq[s].auth \in {NoHeader, "u1"}

NextOverlap == RcStep(FALSE) /\ SameCaller'

\* generate-recovery-codes, calls of user u1 interleaving at their awaits
SpecOverlap == InitRecovery /\ [][NextOverlap]_vars

-----------------------------------------------------------------------------
(* Properties *)

\* C1: among the chat requests of one user that reach the rate limiter
\* within one hour of the request that opened the window, the first
\* RATE_LIMIT are allowed and every later one is answered 429; a request
\* after the reset time opens a new window and is allowed again.
C1_WindowQuota ==
    \A s \in Slots :
        LET r == chatReq[s] IN
        r.limiter # "none" =>
            /\ r.seq <= RATE_LIMIT => r.limiter = "allowed"
            /\ r.seq > RATE_LIMIT =>
                   r.limiter = "denied" /\ r.pc = "done" /\ r.status = 429

\* A request allowed right after a window in which the quota was exceeded
C1_Witness ==
    \E s \in Slots :
        /\ chatReq[s].reopened
        /\ chatReq[s].limiter = "allowed"
        /\ chatReq[s].seq = 1

\* C2: every chat request of an authenticated caller whose JSON body is
\* invalid (message empty or longer than MAX_MESSAGE_LEN, an id that is no
\* UUID) is answered 400, without a completion call.
C2_InvalidBodyIs400 ==
    \A s \in Slots :
        LET r == chatReq[s] IN
        (r.pc = "done" /\ r.limiter # "none" /\ r.json /\ ~ChatBodyValid(r)) =>
            r.status = 400 /\ r.aiCalls = 0

\* C3: a chat request answered 400 or 401 made no completion call and left
\* the rate-limit map as it was (the chat handler writes no table at all).
C3_RejectionHasNoEffect ==
    \A s \in Slots :
        LET r == chatReq[s] IN
        (r.pc = "done" /\ r.status \in {400, 401}) =>
            r.aiCalls = 0 /\ ~r.rlChanged

\* C4: when the conversation had more than HISTORY_LIMIT rows at the time of
\* the history query, the prompt holds, between the system instruction and
\* the new message, exactly the HISTORY_LIMIT most recent rows, oldest first.
C4_MostRecentHistory ==
    \A s \in Slots :
        LET r == chatReq[s] IN
        (r.prompt # <<>> /\ r.loaded > HISTORY_LIMIT) =>
            SubSeq(r.prompt, 2, Len(r.prompt) - 1) = r.recent

\* The status the Completion Client contract assigns to an upstream status
SurfacedStatus(upstream) ==
    IF upstream = 429 THEN 429 ELSE IF upstream = 402 THEN 402 ELSE 500

UserSafeMessages ==
    {"Rate limit exceeded. Please try again later.",
     "AI service requires credits. Please add credits to your account.",
     GenericError, AnalyzeError}

IsSuccess(upstream) == upstream >= 200 /\ upstream <= 299

\* C5: in both handlers a non-success completion response is answered with
\* 429 for 429, 402 for 402 and 500 otherwise, with a user-safe message.
C5_UpstreamStatusSurfaced ==
    \A s \in Slots :
        /\ LET r == chatReq[s] IN
           (r.pc = "done" /\ r.upstream # 0 /\ ~IsSuccess(r.upstream)) =>
               r.status = SurfacedStatus(r.upstream) /\ r.error \in UserSafeMessages
        /\ LET r == anReq[s] IN
           (r.pc = "done" /\ r.upstream # 0 /\ ~IsSuccess(r.upstream)) =>
               r.status = SurfacedStatus(r.upstream) /\ r.error \in UserSafeMessages

\* After a parse failure the handler goes on to the update and answers 200
\* unless the update itself fails.
FallbackIsNoError(r) ==
    r.threw =>
        /\ r.analysis = FallbackAnalysis
        /\ r.pc \in {"save", "done"}
        /\ r.pc = "done" => (r.status = 200 \/ r.updateError)

\* C6 as stated: if the completion text contains a fenced json block with a
\* valid interior, the analysis is the value of such a block; a parse
\* failure gives the fallback object and no error response.
C6_AnyJsonBlock ==
    \A s \in Slots :
        LET r == anReq[s] IN
        r.analysis.type # "none" =>
            /\ r.jsonBlocks # {} => r.analysis \in r.jsonBlocks
            /\ FallbackIsNoError(r)

\* C6, amended: if the first fenced json block of the completion text has a
\* valid interior, the analysis is exactly that value; a parse failure gives
\* the fallback object and no error response.
C6_FirstJsonBlock ==
    \A s \in Slots :
        LET r == anReq[s] IN
        r.analysis.type # "none" =>
            /\ \A v \in r.firstJson : r.analysis = v
            /\ FallbackIsNoError(r)

\* A request answered 200 whose analysis is the object of the first block
C6_Witness ==
    \E s \in Slots :
        /\ anReq[s].pc = "done"
        /\ anReq[s].status = 200
        /\ anReq[s].firstJson = {anReq[s].analysis}
        /\ anReq[s].analysis.type = "object"

Populated(doc) == {f \in AnalysisFields : doc[f] # NULL}

\* C7: a request answered 200 for a document that was processing leaves the
\* document completed with all five analysis fields populated.
C7_SuccessPopulatesAll ==
    \A s \in Slots :
        LET r == anReq[s] IN
        (r.pc = "done" /\ r.status = 200 /\ r.doc0.status = "processing") =>
            /\ documents[r.documentId].status = "completed"
            /\ Populated(documents[r.documentId]) = AnalysisFields

C9_FieldsAllOrNone ==
    \A d \in DOMAIN documents :
        /\ Populated(documents[d]) \in {{}, AnalysisFields}
        /\ documents[d].status = "failed" => Populated(documents[d]) = {}

\* C10: a document that is completed or failed is never changed again.
C10_FinalStatusIsFinal ==
    [][\A d \in DOMAIN documents :
          documents[d].status \in {"completed", "failed"} =>
              documents'[d] = documents[d]]_vars

\* C11: content that begins with %PDF is accepted by validateContentType
\* when the document's file type is application/pdf and rejected when it is
\* text/plain.
C11_PdfAcceptedTextRejected ==
    \A s \in Slots :
        LET r == anReq[s] IN
        (r.validation # "none" /\ StartsWith(r.content.text, <<"%", "P", "D", "F">>)) =>
            /\ r.doc0.file_type = FILE_PDF => r.validation = "accepted"
            /\ r.doc0.file_type = "text/plain" => r.validation = "rejected"

\* C12: in each of the three handlers a request without Authorization
\* header or with an invalid token is answered 401, having made no storage
\* read or write, no completion call and no rate-limit update.
C12_Unauthenticated401 ==
    /\ \A s \in Slots :
           LET r == chatReq[s] IN
           (r.pc = "done" /\ r.auth \in {NoHeader, BadToken}) =>
               r.status = 401 /\ r.reads = 0 /\ r.aiCalls = 0 /\ ~r.rlChanged
    /\ \A s \in Slots :
           LET r == anReq[s] IN
           (r.pc = "done" /\ r.auth \in {NoHeader, BadToken}) =>
               r.status = 401 /\ r.reads = 0 /\ r.writes = 0 /\ r.aiCalls = 0
    /\ \A s \in RcSlots :
           LET r == rcReq[s] IN
           (r.pc = "done" /\ r.auth \in {NoHeader, BadToken}) =>
               r.status = 401 /\ r.reads = 0 /\ r.writes = 0

\* C13: an analyze-document request with Authorization header and a body
\* that passes the schema, for a document id that is absent or not visible
\* to the caller, is answered 404 without completion call or storage write.
C13_NotFound404 ==
    \A s \in Slots :
        LET r == anReq[s] IN
        (/\ r.pc = "done"
         /\ r.auth # NoHeader
         /\ r.json /\ AnalyzeBodyValid(r)
         /\ (r.documentId \notin DOMAIN documents
               \/ documents[r.documentId].user_id # r.auth)) =>
            r.status = 404 /\ r.aiCalls = 0 /\ r.writes = 0

\* A request of u2 for the document of u1, answered 404
C13_Witness ==
    \E s \in Slots :
        /\ anReq[s].pc = "done"
        /\ anReq[s].auth = "u2"
        /\ anReq[s].documentId \in DOMAIN documents
        /\ anReq[s].reads = 1
        /\ anReq[s].status = 404

C15_PromptShape ==
    \A s \in Slots :
        LET r == chatReq[s]
            n == Len(r.prompt)
            persisted == {[role |-> messages[i].role, content |-> messages[i].content] :
                              i \in {k \in DOMAIN messages :
                                         messages[k].conversation_id = r.conversationId}}
        IN  r.prompt # <<>> =>
                /\ n <= HISTORY_LIMIT + 2
                /\ n >= 2
                /\ r.prompt[1].role = "system"
                /\ r.prompt[n] = [role |-> "user", content |-> TextContent(r.message.id)]
                /\ \A i \in 2..(n - 1) :
                       r.prompt[i] \in persisted /\ r.prompt[i].role # "system"

\* A prompt of HISTORY_LIMIT + 2 entries for a conversation with more than
\* HISTORY_LIMIT rows
C15_Witness ==
    \E s \in Slots :
        /\ Len(chatReq[s].prompt) = HISTORY_LIMIT + 2
        /\ chatReq[s].loaded > HISTORY_LIMIT

\* C16: after a failed document lookup the chat handler goes on with the
\* generic system instruction and makes the completion call (unless the API
\* key is not configured, which stops any chat request).
C16_LookupFailureFallsBack ==
    \A s \in Slots :
        LET r == chatReq[s] IN
        r.docError =>
            /\ r.documentId # Undefined
            /\ r.prompt # <<>>
            /\ r.prompt[1] = [role |-> "system", content |-> GenericPrompt]
            /\ r.keyMissing \/ r.aiCalls = 1
            /\ r.pc \in {"ai", "done"}
            /\ r.status # 404

\* A request naming a document its caller cannot see, answered 200
C16_Witness ==
    \E s \in Slots :
        /\ chatReq[s].docError
        /\ ~Visible(documents, chatReq[s].documentId, chatReq[s].auth)
        /\ chatReq[s].pc = "done"
        /\ chatReq[s].status = 200

\* The algorithm of the Rate Limiter, as a relation between the entry of a
\* user before and after a check at time t and the verdict
LimiterAlgorithm(before, after, userId, t, verdict) ==
    IF userId \notin DOMAIN before
    THEN /\ verdict = "allowed"
         /\ userId \in DOMAIN after
         /\ after[userId].count = 1
         /\ after[userId].resetAt = t + 60 * 60 * 1000
    ELSE IF t - before[userId].resetAt >= 1
    THEN /\ verdict = "allowed"
         /\ after[userId].count = 1
         /\ after[userId].resetAt = t + 60 * 60 * 1000
    ELSE IF before[userId].count >= 100
    THEN /\ verdict = "denied"
         /\ after[userId] = before[userId]
    ELSE /\ verdict = "allowed"
         /\ after[userId].count = before[userId].count + 1
         /\ after[userId].resetAt = before[userId].resetAt

\* C17: every rate-limit check of the chat handler follows the algorithm:
\* no entry or time past the reset time: entry {1, now + 1 hour}, allowed;
\* else count >= 100: denied; else count + 1, same reset time, allowed. A
\* check exactly at the reset time belongs to the old window.
C17_LimiterAlgorithm ==
    [][\A s \in Slots :
          (chatReq[s].pc = "getUser" /\ chatReq'[s].limiter # "none") =>
              LimiterAlgorithm(rateLimits, rateLimits', chatReq[s].auth, now,
                               chatReq'[s].limiter)]_vars

\* A request checked exactly at the reset time and counted in the old window
C17_Witness ==
    \E s \in Slots :
        /\ chatReq[s].atReset
        /\ chatReq[s].limiter = "allowed"
        /\ chatReq[s].seq > 1
        /\ rateLimits[chatReq[s].auth].count = chatReq[s].seq

\* C18: in the chat handler validation comes before the rate limiter: a
\* request of an authenticated user with an invalid body is answered 400
\* and the rate limiter is not consulted for it.
C18_ValidationBeforeLimiter ==
    \A s \in Slots :
        LET r == chatReq[s] IN
        (/\ r.pc = "done"
         /\ r.auth \in Users
         /\ r.status # 401
         /\ r.json /\ ~ChatBodyValid(r)) =>
            r.limiter = "none" /\ r.status = 400

RECURSIVE SumOver(_, _)
SumOver(f, S) ==
    IF S = {} THEN 0
    ELSE LET x == CHOOSE y \in S : TRUE IN f[x] + SumOver(f, S \ {x})

\* The number of logged requests in the span of one hour that begins at a
AllowedInSpan(log, a) ==
    SumOver(log, {x \in DOMAIN log : a <= x /\ x <= a + RATE_WINDOW_MS})

\* C19: in no span of one hour are more than 2 * RATE_LIMIT requests of one
\* user allowed (and RATE_LIMIT requests of one window followed by
\* RATE_LIMIT of the next can be allowed: the witness).
C19_SpanQuota ==
    \A u \in Users :
        \A a \in DOMAIN window[u].log :
            AllowedInSpan(window[u].log, a) <= 2 * RATE_LIMIT

\* RATE_LIMIT requests allowed in one window and RATE_LIMIT in the next,
\* all but one of them within one hour
C19_Witness ==
    \E u \in Users :
        /\ window[u].prevAllowed = RATE_LIMIT
        /\ window[u].allowed = RATE_LIMIT
        /\ \E a \in DOMAIN window[u].log :
               AllowedInSpan(window[u].log, a) = 2 * RATE_LIMIT - 1

\* C20: however the chat requests in flight interleave, two requests of one
\* user allowed in the same window never observe the same count, an allowed
\* request never observes a count above RATE_LIMIT, and a request beyond
\* the first RATE_LIMIT of the window is denied.
C20_AtomicCheckAndIncrement ==
    \A s \in DOMAIN chatReq :
        LET r == chatReq[s] IN
        /\ r.limiter = "allowed" =>
               /\ r.count >= 1 /\ r.count <= RATE_LIMIT
               /\ r.seq <= RATE_LIMIT
               /\ \A t \in DOMAIN chatReq \ {s} :
                      (/\ chatReq[t].limiter = "allowed"
                       /\ chatReq[t].auth = r.auth
                       /\ chatReq[t].resetAt = r.resetAt) =>
                          chatReq[t].count # r.count
        /\ r.limiter = "denied" => r.seq > RATE_LIMIT

\* Two requests of one user in flight together, the one having taken the
\* last place of the window and the other being denied
C20_Witness ==
    \E s \in DOMAIN chatReq, t \in DOMAIN chatReq :
        /\ s # t
        /\ chatReq[s].pc \notin {"idle", "done"}
        /\ chatReq[s].limiter = "allowed"
        /\ chatReq[s].count = RATE_LIMIT
        /\ chatReq[t].auth = chatReq[s].auth
        /\ chatReq[t].limiter = "denied"
        /\ chatReq[t].resetAt = chatReq[s].resetAt

\* C21: when the update that persists the analysis fails, the document
\* becomes failed (it does not stay processing) and the answer is 500.
C21_UpdateFailureSetsFailed ==
    \A s \in Slots :
        LET r == anReq[s] IN
        (r.pc = "done" /\ r.updateError) =>
            /\ documents[r.documentId].status = "failed"
            /\ r.status = 500

C23_SingleShot ==
    /\ \A s \in DOMAIN chatReq :
           LET r == chatReq[s] IN
           /\ r.aiCalls <= 1
           /\ r.reads <= 2
           /\ (r.upstream # 0 /\ ChatUpstreamStatus(r.upstream) # 200) =>
                  /\ r.pc = "done"
                  /\ r.aiCalls = 1
                  /\ r.status = ChatUpstreamStatus(r.upstream)
    /\ \A s \in Slots :
           LET r == anReq[s] IN
           /\ r.aiCalls <= 1
           /\ r.reads <= 1
           /\ r.writes <= 1
           /\ (r.upstream # 0 /\ AnalyzeUpstreamStatus(r.upstream) # 200) =>
                  r.pc = "done" /\ r.aiCalls = 1 /\ r.writes = 0 /\ r.status = 500
           /\ r.updateError =>
                  r.pc = "done" /\ r.aiCalls = 1 /\ r.writes = 1 /\ r.status = 500
    /\ \A s \in RcSlots :
           LET r == rcReq[s] IN
           /\ r.writes <= 2
           /\ r.status = 500 => r.pc = "done"
           /\ r.error = "Failed to delete old recovery codes" => r.writes = 1

\* A chat request with a document answered 429 after its one completion
\* call got 429
C23_Witness ==
    \E s \in DOMAIN chatReq :
        /\ chatReq[s].pc = "done"
        /\ chatReq[s].upstream = 429
        /\ chatReq[s].status = 429
        /\ chatReq[s].aiCalls = 1
        /\ chatReq[s].reads = 2

\* C24: every recovery code a call generates has exactly CODE_LEN
\* characters, whatever the CODE_BYTES random bytes are.
C24_CodeLength ==
    \A s \in RcSlots :
        \A i \in DOMAIN rcReq[s].recoveryCodes :
            Len(rcReq[s].recoveryCodes[i]) = CODE_LEN

\* C25: a checkRateLimit call that denies leaves the whole map as it was,
\* and a checkRateLimit call for one user leaves every other user as it
\* was: with the same entry, or with none.
C25_LimiterFrame ==
    [][\A s \in DOMAIN chatReq :
          LET r == chatReq[s] IN
          (r.limiter = "none" /\ r'.limiter # "none") =>
              /\ (r'.limiter = "denied") => rateLimits' = rateLimits
              /\ \A b \in Users \ {r.auth} :
                     /\ b \in DOMAIN rateLimits' <=> b \in DOMAIN rateLimits
                     /\ b \in DOMAIN rateLimits =>
                            rateLimits'[b] = rateLimits[b]]_vars

\* A request of u1 was denied while u2, who has an entry, has quota left,
\* and u1 has opened a new window since the initial state
C25_Witness ==
    \E s \in DOMAIN chatReq :
        /\ chatReq[s].limiter = "denied"
        /\ chatReq[s].auth = "u1"
        /\ rateLimits["u1"].resetAt > RATE_WINDOW_MS
        /\ "u2" \in DOMAIN rateLimits
        /\ rateLimits["u2"].count < RATE_LIMIT

\* C26: in the send flow, the prompt built for a request holds the new
\* user message exactly once.
C26_NewMessageOnce ==
    \A s \in DOMAIN chatReq :
        LET r == chatReq[s]
            new == [role |-> "user", content |-> TextContent(r.message.id)]
        IN  (r.message.id # 0 /\ r.prompt # <<>>) =>
                Cardinality({i \in DOMAIN r.prompt : r.prompt[i] = new}) = 1

\* C27: a PDF file the upload UI accepted is sent as the base64 of its
\* bytes, passes the content validation of analyze-document and is not set
\* to failed by it.
C27_AcceptedPdfPassesValidation ==
    \A s \in Slots :
        LET r == anReq[s] IN
        (r.validation # "none" /\ r.doc0.file_type = FILE_PDF) =>
            /\ \E file \in Files :
                   /\ FileAccepted(file)
                   /\ file.extension = "pdf"
                   /\ r.content.text = Btoa(file.bytes)
            /\ r.validation # "rejected"
            /\ documents[r.documentId].status # "failed"

\* C28: when the calls of one user, which generated different codes, have
\* all been answered 200, however their deletes and inserts interleaved,
\* the user has exactly CODE_COUNT rows and they are the hashes of one of
\* the calls.
C28_OneCallsCodesRemain ==
    \A u \in Users :
        (/\ \A s \in RcSlots :
                rcReq[s].pc = "done" /\ rcReq[s].status = 200 /\ rcReq[s].auth = u
         /\ \A s, t \in RcSlots :
                s # t => rcReq[s].codeHashes # rcReq[t].codeHashes) =>
            LET rows == RowsOf(recoveryCodes, u) IN
            /\ Len(rows) = CODE_COUNT
            /\ \E s \in RcSlots : rows = CodesToInsert(u, rcReq[s].codeHashes)

====
